---- MODULE Spec2Model ----
(***************************************************************************)
(* Caesar cipher tool (src/main.py): the transform engine CaesarCipher,    *)
(* its brute-force enumerator, the file helpers and the interactive shell  *)
(* CaesarCipherCLI.  Text is a sequence of Unicode code points.            *)
(***************************************************************************)
EXTENDS Integers, Sequences, FiniteSets, TLC

VARIABLES
    text, shift, res,       \* direct calls: the arguments and the last call's outcome
    fs, fileOps,            \* the file system; file-helper calls made so far
    pc,                     \* the prompt the shell blocks on, or "exited"
    running,                \* CaesarCipherCLI.running
    op, message, shiftv,    \* the handler in progress: its choice, message/input_file, shift
    exitCode,               \* None while the process lives, else Some(code)
    step                    \* the last blocking read and what was done after it

shell == <<pc, running, op, message, shiftv, exitCode, step>>
vars == <<text, shift, res, fs, fileOps, pc, running, op, message, shiftv, exitCode, step>>

(* ---------------------------------------------------------------------- *)
(* Bounds of the model                                                     *)
(* ---------------------------------------------------------------------- *)
\* longest enumerated text
MaxLen == 2
\* how far beyond [min_shift, max_shift] the shifts tried reach
ShiftMargin == 2
\* file-helper calls in one run
MaxFileOps == 1

(* ---------------------------------------------------------------------- *)
(* CaesarCipher.__init__                                                   *)
(* ---------------------------------------------------------------------- *)
alphabet_size == 26
min_shift == 1
max_shift == 25

(* ---------------------------------------------------------------------- *)
(* Characters: code points and Python's str predicates on them             *)
(* ---------------------------------------------------------------------- *)
OrdUpperA == 65
OrdLowerA == 97
AsciiUpper == 65..90
AsciiLower == 97..122
\* É (upper), é (lower), CJK 中 (letter without case), ǅ (titlecase letter)
NonAsciiUpper == {201}
NonAsciiLower == {233}
NonAsciiCaseless == {20013, 453}
Space == 32

isalpha(c) == c \in AsciiUpper \cup AsciiLower \cup NonAsciiUpper \cup NonAsciiLower \cup NonAsciiCaseless
isupper(c) == c \in AsciiUpper \cup NonAsciiUpper
islower(c) == c \in AsciiLower \cup NonAsciiLower

\* the characters of the enumerated texts: 'Z' 'a' '1' and non-ASCII letters
Chars == {90, 97, 49} \cup NonAsciiUpper \cup NonAsciiLower \cup {20013}

HelloWorld == <<72, 101, 108, 108, 111, 32, 87, 111, 114, 108, 100, 33>>
KhoorZruog == <<75, 104, 111, 111, 114, 32, 90, 114, 117, 111, 103, 33>>
HelloCommaWorld == <<72, 101, 108, 108, 111, 44, 32, 87, 111, 114, 108, 100, 33>>

Texts == (UNION {[1..n -> Chars] : n \in 0..MaxLen}) \cup {HelloWorld, HelloCommaWorld}
Shifts == (min_shift - ShiftMargin)..(max_shift + ShiftMargin)

(* ---------------------------------------------------------------------- *)
(* CaesarCipher.cipher                                                     *)
(* ---------------------------------------------------------------------- *)
\* the lower bound slipped to 0
ShiftInRange_FromZero(s) == 0 <= s /\ s <= max_shift

ShiftInRange(s) == min_shift <= s /\ s <= max_shift

\* every character is rotated, letter or not
CipherChar_NoAlphaTest(char, s) ==
    LET base == IF isupper(char) THEN OrdUpperA ELSE OrdLowerA
    IN  ((char - base + s) % alphabet_size) + base

\* the base of the lowercase alphabet is used for every letter
CipherChar_LowerBase(char, s) ==
    IF isalpha(char)
    THEN ((char - OrdLowerA + s) % alphabet_size) + OrdLowerA
    ELSE char

CipherChar(char, s) ==
    IF isalpha(char)
    THEN LET base == IF isupper(char) THEN OrdUpperA ELSE OrdLowerA
         IN  ((char - base + s) % alphabet_size) + base
    ELSE char

RECURSIVE CipherLoop(_, _, _, _)
CipherLoop(t, s, i, result) ==
    IF i > Len(t) THEN result
    ELSE CipherLoop(t, s, i + 1, Append(result, CipherChar(t[i], s)))

\* raised: the exception leaving the call ("none" when it returns);
\* value: the returned text; steps: loop iterations executed.
cipher(t, s, decrypt) ==
    IF ~ShiftInRange(s)
    THEN [raised |-> "ValueError", value |-> <<>>, steps |-> 0]
    ELSE LET sh == IF decrypt THEN -s ELSE s
         IN  [raised |-> "none", value |-> CipherLoop(t, sh, 1, <<>>), steps |-> Len(t)]

encrypt(t, s) == cipher(t, s, FALSE)

decrypt(t, s) == cipher(t, s, TRUE)

(* ---------------------------------------------------------------------- *)
(* CaesarCipher.brute_force_decrypt: results is a dict, kept as the       *)
(* sequence of its <<key, value>> items in insertion order                 *)
(* ---------------------------------------------------------------------- *)
DictKeys(d) == [i \in 1..Len(d) |-> d[i][1]]

DictHas(d, k) == \E i \in 1..Len(d) : d[i][1] = k

DictGet(d, k) == d[CHOOSE i \in 1..Len(d) : d[i][1] = k][2]

DictSet(d, k, v) ==
    IF DictHas(d, k)
    THEN [i \in 1..Len(d) |-> IF d[i][1] = k THEN <<k, v>> ELSE d[i]]
    ELSE Append(d, <<k, v>>)

BruteRangeEnd == max_shift + 1

RECURSIVE BruteLoop(_, _, _, _)
BruteLoop(encrypted_text, sh, results, writes) ==
    IF sh >= BruteRangeEnd
    THEN [raised |-> "none", results |-> results, writes |-> writes]
    ELSE LET decrypted == decrypt(encrypted_text, sh)
         IN  IF decrypted.raised # "none"
             THEN [raised |-> decrypted.raised, results |-> <<>>, writes |-> writes]
             ELSE BruteLoop(encrypted_text, sh + 1,
                            DictSet(results, sh, decrypted.value), Append(writes, sh))

brute_force_decrypt(encrypted_text) == BruteLoop(encrypted_text, min_shift, <<>>, <<>>)

(* ---------------------------------------------------------------------- *)
(* Exceptions: the classes raised in the program and Python's hierarchy    *)
(* ---------------------------------------------------------------------- *)
\* res before any call
NoCall == [op |-> "none"]

NoStep == [prompt |-> "none", input |-> [kind |-> "none", line |-> <<>>], out |-> <<>>,
           calls |-> <<>>, shown |-> <<>>, results |-> <<>>, wrote |-> <<>>, reported |-> <<>>]

\* the shell before main() is entered
ShellNotStarted ==
    /\ pc = "none"
    /\ running = FALSE
    /\ op = <<>>
    /\ message = <<>>
    /\ shiftv = 0
    /\ exitCode = <<>>
    /\ step = NoStep

OSErrors == {"FileNotFoundError", "PermissionError", "IsADirectoryError", "OSError"}
ExceptionSubclasses == OSErrors \cup {"ValueError", "UnicodeDecodeError", "EOFError"}

(* ---------------------------------------------------------------------- *)
(* Paths and the file system seen through open(), read() and write()       *)
(* ---------------------------------------------------------------------- *)
Dot == 46
Slash == 47
None == <<>>
Some(x) == <<x>>

\* "_encrypted" and "_decrypted"
SuffixEncrypted == <<95, 101, 110, 99, 114, 121, 112, 116, 101, 100>>
SuffixDecrypted == <<95, 100, 101, 99, 114, 121, 112, 116, 101, 100>>

RFind(p, c) ==
    IF \E i \in 1..Len(p) : p[i] = c
    THEN CHOOSE i \in 1..Len(p) : p[i] = c /\ \A j \in (i + 1)..Len(p) : p[j] # c
    ELSE 0

\* os.path.splitext: the extension starts at the last dot of the last
\* component, unless only dots precede it in that component
splitext(p) ==
    LET sepIndex == RFind(p, Slash)
        dotIndex == RFind(p, Dot)
    IN  IF /\ dotIndex > sepIndex
           /\ \E k \in (sepIndex + 1)..(dotIndex - 1) : p[k] # Dot
        THEN <<SubSeq(p, 1, dotIndex - 1), SubSeq(p, dotIndex, Len(p))>>
        ELSE <<p, <<>>>>

\* the suffix is appended after the extension
DerivedName_Appended(input_file, suffix) == input_file \o suffix

\* name, ext = os.path.splitext(input_file); f"{name}<suffix>{ext}"
DerivedName(input_file, suffix) ==
    LET sp == splitext(input_file)
    IN  sp[1] \o suffix \o sp[2]

EmptyFs == [files |-> <<>>, dirs |-> {}, denied |-> {}, binary |-> {}, full |-> FALSE]

\* open(p, 'r'): the exception raised, "none" when the file opens
OpenRead(fsys, p) ==
    IF p \in fsys.dirs THEN "IsADirectoryError"
    ELSE IF p \notin DOMAIN fsys.files THEN "FileNotFoundError"
    ELSE IF p \in fsys.denied THEN "PermissionError"
    ELSE "none"

\* file.read() with encoding='utf-8'
ReadAll(fsys, p) == IF p \in fsys.binary THEN "UnicodeDecodeError" ELSE "none"

\* open(p, 'w'): the exception raised, "none" when the file opens
OpenWrite(fsys, p) ==
    LET sepIndex == RFind(p, Slash)
    IN  IF p = <<>> THEN "FileNotFoundError"
        ELSE IF p \in fsys.dirs THEN "IsADirectoryError"
        ELSE IF sepIndex > 0 /\ SubSeq(p, 1, sepIndex - 1) \notin fsys.dirs THEN "FileNotFoundError"
        ELSE IF p \in fsys.denied THEN "PermissionError"
        ELSE "none"

\* file.write(content) on a device that may be full
WriteAll(fsys, content) == IF fsys.full /\ Len(content) > 0 THEN "OSError" ELSE "none"

\* the file system once p holds exactly content
FsStore(fsys, p, content) ==
    [fsys EXCEPT !.files = [q \in (DOMAIN fsys.files) \cup {p} |->
                               IF q = p THEN content ELSE fsys.files[q]],
                 !.binary = fsys.binary \ {p}]

(* ---------------------------------------------------------------------- *)
(* CaesarCipher.encrypt_file / decrypt_file                                *)
(* ---------------------------------------------------------------------- *)
\* only OSError is caught by the last clause
IsCaughtGeneric_OSErrorOnly(e) == e \in OSErrors

\* except Exception as e
IsCaughtGeneric(e) == e \in ExceptionSubclasses

\* the except clauses of the helpers; wrote lists the paths opened for
\* writing
FileExcept(fsys, e, wrote) ==
    IF e = "FileNotFoundError"
    THEN [raised |-> "none", ret |-> FALSE, fs |-> fsys, printed |-> <<"not found">>, wrote |-> wrote]
    ELSE IF e = "PermissionError"
    THEN [raised |-> "none", ret |-> FALSE, fs |-> fsys, printed |-> <<"Permission denied">>, wrote |-> wrote]
    ELSE IF IsCaughtGeneric(e)
    THEN [raised |-> "none", ret |-> FALSE, fs |-> fsys, printed |-> <<e>>, wrote |-> wrote]
    ELSE [raised |-> e, ret |-> FALSE, fs |-> fsys, printed |-> <<>>, wrote |-> wrote]

FileTransform(fsys, input_file, s, output_file, dec, suffix) ==
    LET openR == OpenRead(fsys, input_file)
        readE == IF openR # "none" THEN openR ELSE ReadAll(fsys, input_file)
        content == cipher(fsys.files[input_file], s, dec)
        out == IF output_file = None THEN DerivedName(input_file, suffix) ELSE output_file[1]
        openW == OpenWrite(fsys, out)
        truncated == FsStore(fsys, out, <<>>)
        writeE == WriteAll(truncated, content.value)
    IN  IF readE # "none" THEN FileExcept(fsys, readE, <<>>)
        ELSE IF content.raised # "none" THEN FileExcept(fsys, content.raised, <<>>)
        ELSE IF openW # "none" THEN FileExcept(fsys, openW, <<>>)
        ELSE IF writeE # "none" THEN FileExcept(truncated, writeE, <<out>>)
        ELSE [raised |-> "none", ret |-> TRUE, fs |-> FsStore(fsys, out, content.value),
              printed |-> <<>>, wrote |-> <<out>>]

encrypt_file(fsys, input_file, s, output_file) ==
    FileTransform(fsys, input_file, s, output_file, FALSE, SuffixEncrypted)

decrypt_file(fsys, input_file, s, output_file) ==
    FileTransform(fsys, input_file, s, output_file, TRUE, SuffixDecrypted)

(* ---------------------------------------------------------------------- *)
(* The files the helpers are run on                                        *)
(* ---------------------------------------------------------------------- *)
\* "a.t", "b", ".a", "m.t" (absent), "d" (a directory), "d/c.t", "n/o"
\* (no such directory), "o.t" (absent)
PathAT == <<97, 46, 116>>
PathB == <<98>>
PathDotA == <<46, 97>>
PathMT == <<109, 46, 116>>
PathD == <<100>>
PathDCT == <<100, 47, 99, 46, 116>>
PathNO == <<110, 47, 111>>
PathOT == <<111, 46, 116>>

InputPaths == {PathAT, PathB, PathDotA, PathMT, PathD, PathDCT, <<>>}
OutputPaths == {PathB, PathOT, PathNO, PathAT, PathD}

\* contents: "Za1", "é Z", "" and the old content "zz"
InitialFiles ==
    (PathAT :> <<90, 97, 49>>) @@ (PathB :> <<233, 32, 90>>) @@ (PathDotA :> <<>>)
    @@ (PathDCT :> <<97>>)
    @@ (DerivedName(PathAT, SuffixEncrypted) :> <<122, 122>>)
    @@ (DerivedName(PathB, SuffixDecrypted) :> <<122, 122>>)

FsConfigs ==
    {[files |-> InitialFiles, dirs |-> {PathD}, denied |-> dn, binary |-> bn, full |-> fl] :
        dn \in {{}, {PathB}, {DerivedName(PathAT, SuffixEncrypted)}},
        bn \in {{}, {PathDotA}},
        fl \in BOOLEAN}

(* ---------------------------------------------------------------------- *)
(* Direct calls of the file helpers                                        *)
(* ---------------------------------------------------------------------- *)
InitFile ==
    /\ text = <<>>
    /\ shift \in Shifts
    /\ res = NoCall
    /\ fs \in FsConfigs
    /\ fileOps = 0
    /\ ShellNotStarted

CallFile(name, input_file, output_file) ==
    /\ fileOps < MaxFileOps
    /\ LET r == IF name = "encrypt_file"
                THEN encrypt_file(fs, input_file, shift, output_file)
                ELSE decrypt_file(fs, input_file, shift, output_file)
       IN  /\ res' = [op |-> name, input_file |-> input_file, output_file |-> output_file,
                      pre |-> fs, ret |-> r]
           /\ fs' = r.fs
    /\ fileOps' = fileOps + 1
    /\ UNCHANGED <<text, shift, shell>>

CallEncryptFile ==
    \E input_file \in InputPaths, output_file \in {None} \cup {Some(o) : o \in OutputPaths} :
        CallFile("encrypt_file", input_file, output_file)

CallDecryptFile ==
    \E input_file \in InputPaths, output_file \in {None} \cup {Some(o) : o \in OutputPaths} :
        CallFile("decrypt_file", input_file, output_file)

NextFile == CallEncryptFile \/ CallDecryptFile

SpecFile == InitFile /\ [][NextFile]_vars

\* the target of a helper call: the explicit output path, or else the
\* input path with the suffix of the direction
FileTarget(name, input_file, output_file) ==
    IF output_file # None THEN output_file[1]
    ELSE DerivedName(input_file, IF name = "encrypt_file" THEN SuffixEncrypted ELSE SuffixDecrypted)

FileExpected(name, content, s) ==
    IF name = "encrypt_file" THEN encrypt(content, s).value ELSE decrypt(content, s).value

\* C6: encrypt_file and decrypt_file never let an exception reach the
\* caller; a missing input, refused access, an out-of-range shift or any
\* other failure of reading, transforming or writing is reported and the
\* call returns False; True is returned only when the output path holds
\* the transformed content.
C6_FileNoThrow ==
    res.op \in {"encrypt_file", "decrypt_file"} =>
        LET target == FileTarget(res.op, res.input_file, res.output_file)
            failing ==
                \/ res.input_file \notin DOMAIN res.pre.files
                \/ res.input_file \in res.pre.denied \cup res.pre.dirs \cup res.pre.binary
                \/ shift \notin 1..25
                \/ target \in res.pre.denied \cup res.pre.dirs
                \/ OpenWrite(res.pre, target) # "none"
        IN  /\ res.ret.raised = "none"
            /\ res.ret.ret \in BOOLEAN
            /\ failing => res.ret.ret = FALSE
            /\ res.ret.ret = FALSE => res.ret.printed # <<>>
            /\ res.ret.ret = TRUE =>
                 /\ target \in DOMAIN fs.files
                 /\ fs.files[target] = FileExpected(res.op, res.pre.files[res.input_file], shift)

C6_Witness ==
    /\ res.op = "decrypt_file" /\ shift = 0
    /\ res.input_file = PathAT /\ res.ret.ret = FALSE /\ res.ret.printed = <<"ValueError">>

(* ---------------------------------------------------------------------- *)
(* Direct use of the engine (run_examples): the calls are applied to the   *)
(* inputs text and shift                                                   *)
(* ---------------------------------------------------------------------- *)
InitCipher ==
    /\ text \in Texts
    /\ shift \in Shifts
    /\ res = NoCall
    /\ fs = EmptyFs
    /\ fileOps = 0
    /\ ShellNotStarted

CallEncrypt ==
    /\ res' = [op |-> "encrypt", ret |-> encrypt(text, shift)]
    /\ UNCHANGED <<text, shift, fs, fileOps, shell>>

CallDecrypt ==
    /\ res' = [op |-> "decrypt", ret |-> decrypt(text, shift)]
    /\ UNCHANGED <<text, shift, fs, fileOps, shell>>

\* encrypted = cipher.encrypt(message, shift); decrypted = cipher.decrypt(encrypted, shift)
\* results = cipher.brute_force_decrypt(encrypted)
RunExamples ==
    /\ LET encrypted == encrypt(text, shift)
       IN  IF encrypted.raised # "none"
           THEN res' = [op |-> "run_examples", raised |-> encrypted.raised]
           ELSE LET decrypted == decrypt(encrypted.value, shift)
                    results == brute_force_decrypt(encrypted.value)
                IN  res' = [op |-> "run_examples", raised |-> "none",
                            encrypted |-> encrypted.value,
                            decrypted |-> decrypted,
                            results |-> results]
    /\ UNCHANGED <<text, shift, fs, fileOps, shell>>

CallBruteForce ==
    /\ res' = [op |-> "brute_force_decrypt", ret |-> brute_force_decrypt(text)]
    /\ UNCHANGED <<text, shift, fs, fileOps, shell>>

NextCipher == CallEncrypt \/ CallDecrypt \/ RunExamples \/ CallBruteForce

SpecCipher == InitCipher /\ [][NextCipher]_vars

(* ---------------------------------------------------------------------- *)
(* Properties of the transform engine, checked under SpecCipher            *)
(* ---------------------------------------------------------------------- *)
Transformed == res.op \in {"encrypt", "decrypt"} /\ res.ret.raised = "none"

\* C1: for every valid shift s and every text t,
\* decrypt(encrypt(t, s), s) returns t.
C1_RoundTrip ==
    (res.op = "run_examples" /\ res.raised = "none") =>
        (res.decrypted.raised = "none" /\ res.decrypted.value = text)

\* C2: for every valid shift the output of encrypt and of decrypt has the
\* length of the input, and every non-alphabetic character of the input
\* is found unchanged at its position in the output.
C2_NonAlphaPreserved ==
    Transformed =>
        /\ Len(res.ret.value) = Len(text)
        /\ \A i \in 1..Len(text) : ~isalpha(text[i]) => res.ret.value[i] = text[i]

C2_Witness ==
    /\ Transformed
    /\ \E i \in 1..Len(text) : ~isalpha(text[i])
    /\ \E j \in 1..Len(text) : isalpha(text[j]) /\ res.ret.value[j] # text[j]

\* the letter of the 26-letter alphabet starting at first that lies
\* delta positions after c, wrapping around
Rotated(first, c, delta) ==
    CHOOSE d \in first..(first + alphabet_size - 1) : (d - c - delta) % alphabet_size = 0

\* C3: for every valid shift, an uppercase letter of the input gives an
\* uppercase letter and a lowercase letter a lowercase letter at the same
\* position; a letter of A-Z or a-z at alphabet index i gives the letter of
\* its case at index (i + s) mod 26 under encrypt and (i - s) mod 26
\* under decrypt; encrypt("Hello World!", 3) is "Khoor Zruog!".
C3_CasePreserved ==
    /\ Transformed =>
          LET delta == IF res.op = "encrypt" THEN shift ELSE -shift
          IN  \A i \in 1..Len(text) :
                /\ i \in DOMAIN res.ret.value
                /\ (isalpha(text[i]) /\ isupper(text[i])) => res.ret.value[i] \in AsciiUpper
                /\ (isalpha(text[i]) /\ islower(text[i])) => res.ret.value[i] \in AsciiLower
                /\ text[i] \in AsciiUpper => res.ret.value[i] = Rotated(OrdUpperA, text[i], delta)
                /\ text[i] \in AsciiLower => res.ret.value[i] = Rotated(OrdLowerA, text[i], delta)
    /\ (res.op = "encrypt" /\ text = HelloWorld /\ shift = 3) =>
          (res.ret.raised = "none" /\ res.ret.value = KhoorZruog)

C3_Witness ==
    /\ res.op = "decrypt" /\ res.ret.raised = "none" /\ shift = 1
    /\ text = <<97, 90>> /\ res.ret.value = <<122, 89>>

\* C4: a shift outside [1, 25] makes cipher, encrypt and decrypt raise
\* ValueError before any character is transformed, and no text is
\* returned; a shift inside [1, 25] never raises it.
C4_InvalidShift ==
    /\ res.op \in {"encrypt", "decrypt"} =>
          IF shift \in 1..25
          THEN res.ret.raised = "none" /\ res.ret.steps = Len(text)
          ELSE /\ res.ret.raised = "ValueError"
               /\ res.ret.steps = 0
               /\ res.ret.value = <<>>
    /\ res.op = "run_examples" => (res.raised = "ValueError" <=> shift \notin 1..25)

C4_Witness ==
    /\ res.op = "encrypt" /\ shift = 26 /\ Len(text) > 0
    /\ res.ret.raised = "ValueError"

AscendingShifts == [k \in 1..25 |-> k]

\* the 25 keys 1..25 in ascending order, each written once, with
\* decrypt(c, k) at key k
BruteForceShape(c, r) ==
    /\ r.raised = "none"
    /\ DictKeys(r.results) = AscendingShifts
    /\ r.writes = AscendingShifts
    /\ \A k \in 1..25 : DictGet(r.results, k) = decrypt(c, k).value

\* C5: brute_force_decrypt(c) returns exactly the keys 1..25 in ascending
\* insertion order, none written twice, with decrypt(c, k) at key k; and
\* when c = encrypt(p, s) for a valid s, the entry at key s is p.
C5_BruteForce ==
    /\ res.op = "brute_force_decrypt" => BruteForceShape(text, res.ret)
    /\ (res.op = "run_examples" /\ res.raised = "none") =>
          /\ BruteForceShape(res.encrypted, res.results)
          /\ DictGet(res.results.results, shift) = text

\* the part of C5 that does not depend on the round trip
BruteForceEntries ==
    /\ res.op = "brute_force_decrypt" => BruteForceShape(text, res.ret)
    /\ (res.op = "run_examples" /\ res.raised = "none") =>
          BruteForceShape(res.encrypted, res.results)

\* the round trip on texts whose letters are all in A-Z and a-z
AsciiRoundTrip ==
    (res.op = "run_examples" /\ res.raised = "none"
        /\ \A i \in 1..Len(text) : isalpha(text[i]) => text[i] \in AsciiUpper \cup AsciiLower) =>
        (res.decrypted.value = text /\ DictGet(res.results.results, shift) = text)

(* ---------------------------------------------------------------------- *)
(* Interactive shell: what a blocking input() delivers                     *)
(* ---------------------------------------------------------------------- *)
Line(l) == [kind |-> "line", line |-> l]
EndOfInput == [kind |-> "EOFError", line |-> <<>>]
Interrupt == [kind |-> "KeyboardInterrupt", line |-> <<>>]
Deliveries(lines) == {Line(l) : l \in lines} \cup {EndOfInput, Interrupt}

\* space and tab
Whitespace == {32, 9}

RECURSIVE LStrip(_)
LStrip(s) == IF s # <<>> /\ Head(s) \in Whitespace THEN LStrip(Tail(s)) ELSE s

RECURSIVE RStrip(_)
RStrip(s) ==
    IF s # <<>> /\ s[Len(s)] \in Whitespace THEN RStrip(SubSeq(s, 1, Len(s) - 1)) ELSE s

\* the line is used as typed
strip_Missing(s) == s

\* str.strip()
strip(s) == RStrip(LStrip(s))

\* str.lower()
lower(s) ==
    [i \in 1..Len(s) |->
        IF s[i] \in AsciiUpper THEN s[i] + 32
        ELSE IF s[i] \in NonAsciiUpper THEN s[i] + 32
        ELSE s[i]]

RECURSIVE DigitsValue(_)
DigitsValue(d) ==
    IF d = <<>> THEN 0
    ELSE 10 * DigitsValue(SubSeq(d, 1, Len(d) - 1)) + (d[Len(d)] - 48)

\* int(str): surrounding whitespace, an optional sign, decimal digits
ParseInt(l) ==
    LET s == strip(l)
        signed == s # <<>> /\ s[1] \in {43, 45}
        body == IF signed THEN Tail(s) ELSE s
    IN  IF body # <<>> /\ \A i \in 1..Len(body) : body[i] \in 48..57
        THEN [raised |-> "none",
              value |-> IF signed /\ s[1] = 45 THEN -DigitsValue(body) ELSE DigitsValue(body)]
        ELSE [raised |-> "ValueError", value |-> 0]

(* ---------------------------------------------------------------------- *)
(* CaesarCipherCLI.get_user_input, get_valid_shift and main's wrapper      *)
(* ---------------------------------------------------------------------- *)
get_user_input(inp) ==
    IF inp.kind = "line"
    THEN [raised |-> "none", code |-> 0, value |-> strip(inp.line), printed |-> <<>>]
    ELSE IF inp.kind = "KeyboardInterrupt"
    THEN [raised |-> "SystemExit", code |-> 0, value |-> <<>>, printed |-> <<"Goodbye!">>]
    ELSE [raised |-> inp.kind, code |-> 0, value |-> <<>>, printed |-> <<>>]

\* one iteration of the while loop; returned tells whether it returns
get_valid_shift(inp) ==
    IF inp.kind = "line"
    THEN LET n == ParseInt(inp.line)
         IN  IF n.raised = "ValueError"
             THEN [raised |-> "none", code |-> 0, returned |-> FALSE, value |-> 0,
                   printed |-> <<"Please enter a valid number.">>]
             ELSE IF ShiftInRange(n.value)
             THEN [raised |-> "none", code |-> 0, returned |-> TRUE, value |-> n.value,
                   printed |-> <<>>]
             ELSE [raised |-> "none", code |-> 0, returned |-> FALSE, value |-> 0,
                   printed |-> <<"Please enter a number between 1 and 25.">>]
    ELSE IF inp.kind = "KeyboardInterrupt"
    THEN [raised |-> "SystemExit", code |-> 0, returned |-> FALSE, value |-> 0,
          printed |-> <<"Goodbye!">>]
    ELSE [raised |-> inp.kind, code |-> 0, returned |-> FALSE, value |-> 0, printed |-> <<>>]

\* a bare except: SystemExit is caught as well
MainCatchesException_Bare(e) == e \in ExceptionSubclasses \cup {"SystemExit"}

\* except Exception as e, in main
MainCatchesException(e) == e \in ExceptionSubclasses

\* main: what leaves app.run() decides the exit code and the last message
main(raised, code, printed) ==
    IF raised = "KeyboardInterrupt"
    THEN [code |-> 0, printed |-> printed \o <<"Goodbye!">>]
    ELSE IF MainCatchesException(raised)
    THEN [code |-> 1, printed |-> printed \o <<"An unexpected error occurred">>]
    ELSE [code |-> code, printed |-> printed]

\* anything typed quits
IsQuit_AnyText(continue_choice) == continue_choice # <<>>

\* 'q' after str.lower()
IsQuit(continue_choice) == lower(continue_choice) = <<113>>

(* ---------------------------------------------------------------------- *)
(* What the user may type at each prompt                                   *)
(* ---------------------------------------------------------------------- *)
\* "1" .. "8", "9", "", " 1", "x"
ChoiceLines == {<<c>> : c \in 49..57} \cup {<<>>, <<32, 49>>, <<120>>}
\* "", " ", tab-space, "Za", "é", " a "
MessageLines == {<<>>, <<32>>, <<9, 32>>, <<90, 97>>, <<233>>, <<32, 97, 32>>}
\* "", " ", and file paths
PathLines == {<<>>, <<32>>, <<9>>, PathAT, PathB, PathDotA, PathMT, PathD, <<32>> \o PathAT}
\* "0" "1" "25" "26" "-1" "x" "" " 3 "
ShiftLines == {<<48>>, <<49>>, <<50, 53>>, <<50, 54>>, <<45, 49>>, <<120>>, <<>>, <<32, 51, 32>>}
\* "", " ", and file paths
OutputLines == {<<>>, <<32>>, PathB, PathOT, PathNO, PathAT, PathD}
\* "", "q", "Q", " q ", "x", "qq"
ContinueLines == {<<>>, <<113>>, <<81>>, <<32, 113, 32>>, <<120>>, <<113, 113>>}

(* ---------------------------------------------------------------------- *)
(* CaesarCipherCLI.run and its handlers, one action per blocking read      *)
(* ---------------------------------------------------------------------- *)
InitShell ==
    /\ text = <<>>
    /\ shift = 0
    /\ res = NoCall
    /\ fs \in FsConfigs
    /\ fileOps = 0
    /\ pc = "choice"
    /\ running = TRUE
    /\ op = <<>>
    /\ message = <<>>
    /\ shiftv = 0
    /\ exitCode = None
    /\ step = [NoStep EXCEPT !.out = <<"header", "menu">>]

harness == <<text, shift, res>>

\* an exception leaves the handler and run(): main decides how the process ends
Terminate(inp, r) ==
    LET m == main(r.raised, r.code, r.printed)
    IN  /\ pc' = "exited"
        /\ exitCode' = Some(m.code)
        /\ step' = [NoStep EXCEPT !.prompt = pc, !.input = inp, !.out = m.printed]
        /\ UNCHANGED <<running, op, message, shiftv, fs, fileOps, harness>>

\* run() returns after self.running = False: main returns, exit code 0
Finish(inp, printed) ==
    /\ pc' = "exited"
    /\ running' = FALSE
    /\ exitCode' = Some(0)
    /\ step' = [NoStep EXCEPT !.prompt = pc, !.input = inp, !.out = printed]
    /\ UNCHANGED <<op, message, shiftv, fs, fileOps, harness>>

\* the handler has returned and its locals are gone: the continue-or-quit
\* prompt is next
ToContinue(inp, st) ==
    /\ pc' = "continue"
    /\ step' = [st EXCEPT !.prompt = pc, !.input = inp]
    /\ op' = <<>>
    /\ message' = <<>>
    /\ shiftv' = 0
    /\ UNCHANGED <<running, harness>>

ReadChoice ==
    /\ pc = "choice"
    /\ \E inp \in Deliveries(ChoiceLines) :
        LET r == get_user_input(inp)
            choice == r.value
        IN  IF r.raised # "none" THEN Terminate(inp, r)
            ELSE IF choice \in {<<49>>, <<50>>, <<51>>}
            THEN /\ pc' = "message"
                 /\ op' = choice
                 /\ step' = [NoStep EXCEPT !.prompt = pc, !.input = inp]
                 /\ UNCHANGED <<running, message, shiftv, exitCode, fs, fileOps, harness>>
            ELSE IF choice \in {<<52>>, <<53>>}
            THEN /\ fileOps < MaxFileOps
                 /\ pc' = "input_file"
                 /\ op' = choice
                 /\ step' = [NoStep EXCEPT !.prompt = pc, !.input = inp]
                 /\ UNCHANGED <<running, message, shiftv, exitCode, fs, fileOps, harness>>
            ELSE IF choice \in {<<54>>, <<55>>}
            THEN /\ pc' = "continue"
                 /\ op' = <<>>
                 /\ step' = [NoStep EXCEPT !.prompt = pc, !.input = inp,
                                          !.out = IF choice = <<54>> THEN <<"examples">> ELSE <<"help">>,
                                          !.calls = IF choice = <<54>> THEN <<"encrypt", "decrypt">> ELSE <<>>]
                 /\ UNCHANGED <<running, message, shiftv, exitCode, fs, fileOps, harness>>
            ELSE IF choice = <<56>>
            THEN /\ op' = <<>>
                 /\ pc' = "exited"
                 /\ running' = FALSE
                 /\ exitCode' = Some(0)
                 /\ step' = [NoStep EXCEPT !.prompt = pc, !.input = inp,
                                          !.out = <<"Thank you for using Caesar Cipher Tool!">>]
                 /\ UNCHANGED <<message, shiftv, fs, fileOps, harness>>
            ELSE /\ pc' = "choice"
                 /\ op' = <<>>
                 /\ step' = [NoStep EXCEPT !.prompt = pc, !.input = inp,
                                          !.out = <<"Invalid choice.", "menu">>]
                 /\ UNCHANGED <<running, message, shiftv, exitCode, fs, fileOps, harness>>

\* encrypt_message, decrypt_message and brute_force_decrypt up to the shift prompt
ReadMessage ==
    /\ pc = "message"
    /\ \E inp \in Deliveries(MessageLines) :
        LET r == get_user_input(inp)
            bf == brute_force_decrypt(r.value)
        IN  IF r.raised # "none" THEN Terminate(inp, r)
            ELSE IF r.value = <<>>
            THEN /\ ToContinue(inp, [NoStep EXCEPT !.out = <<"Message cannot be empty.">>])
                 /\ UNCHANGED <<exitCode, fs, fileOps>>
            ELSE IF op = <<51>>
            THEN IF bf.raised # "none"
                 THEN Terminate(inp, [raised |-> bf.raised, code |-> 0, printed |-> <<>>])
                 ELSE /\ ToContinue(inp, [NoStep EXCEPT !.out = <<"Trying all shifts">>,
                                                        !.calls = <<"brute_force_decrypt">>,
                                                        !.results = bf.results])
                      /\ UNCHANGED <<exitCode, fs, fileOps>>
            ELSE /\ pc' = "shift"
                 /\ message' = r.value
                 /\ step' = [NoStep EXCEPT !.prompt = pc, !.input = inp]
                 /\ UNCHANGED <<running, op, shiftv, exitCode, fs, fileOps, harness>>

\* encrypt_file_menu and decrypt_file_menu up to the shift prompt
ReadInputFile ==
    /\ pc = "input_file"
    /\ \E inp \in Deliveries(PathLines) :
        LET r == get_user_input(inp)
        IN  IF r.raised # "none" THEN Terminate(inp, r)
            ELSE IF r.value = <<>>
            THEN /\ ToContinue(inp, [NoStep EXCEPT !.out = <<"File path cannot be empty.">>])
                 /\ UNCHANGED <<exitCode, fs, fileOps>>
            ELSE /\ pc' = "shift"
                 /\ message' = r.value
                 /\ step' = [NoStep EXCEPT !.prompt = pc, !.input = inp]
                 /\ UNCHANGED <<running, op, shiftv, exitCode, fs, fileOps, harness>>

\* get_valid_shift, then the rest of encrypt_message / decrypt_message, or
\* on to the output prompt of the file menus
ReadShift ==
    /\ pc = "shift"
    /\ \E inp \in Deliveries(ShiftLines) :
        LET r == get_valid_shift(inp)
            c == cipher(message, r.value, op = <<50>>)
        IN  IF r.raised # "none" THEN Terminate(inp, r)
            ELSE IF ~r.returned
            THEN /\ pc' = "shift"
                 /\ step' = [NoStep EXCEPT !.prompt = pc, !.input = inp, !.out = r.printed]
                 /\ UNCHANGED <<running, op, message, shiftv, exitCode, fs, fileOps, harness>>
            ELSE IF op \in {<<52>>, <<53>>}
            THEN /\ pc' = "output_file"
                 /\ shiftv' = r.value
                 /\ step' = [NoStep EXCEPT !.prompt = pc, !.input = inp]
                 /\ UNCHANGED <<running, op, message, exitCode, fs, fileOps, harness>>
            ELSE IF c.raised = "none"
            THEN /\ ToContinue(inp, [NoStep EXCEPT !.out = <<"successful!">>,
                                                   !.calls = <<IF op = <<49>> THEN "encrypt" ELSE "decrypt">>,
                                                   !.shown = c.value])
                 /\ UNCHANGED <<exitCode, fs, fileOps>>
            ELSE IF c.raised \in ExceptionSubclasses
            THEN /\ ToContinue(inp, [NoStep EXCEPT !.out = <<"failed">>,
                                                   !.calls = <<IF op = <<49>> THEN "encrypt" ELSE "decrypt">>])
                 /\ UNCHANGED <<exitCode, fs, fileOps>>
            ELSE Terminate(inp, [raised |-> c.raised, code |-> 0, printed |-> <<>>])

\* final_output of the file menus
FinalOutput(input_file, output_file, suffix) ==
    IF output_file # None THEN output_file[1]
    ELSE splitext(input_file)[1] \o suffix \o splitext(input_file)[2]

\* the rest of encrypt_file_menu / decrypt_file_menu
ReadOutputFile ==
    /\ pc = "output_file"
    /\ \E inp \in Deliveries(OutputLines) :
        LET r == get_user_input(inp)
            output_file == IF r.value = <<>> THEN None ELSE Some(r.value)
            name == IF op = <<52>> THEN "encrypt_file" ELSE "decrypt_file"
            f == IF op = <<52>>
                 THEN encrypt_file(fs, message, shiftv, output_file)
                 ELSE decrypt_file(fs, message, shiftv, output_file)
            suffix == IF op = <<52>> THEN SuffixEncrypted ELSE SuffixDecrypted
        IN  IF r.raised # "none" THEN Terminate(inp, r)
            ELSE IF f.raised # "none"
            THEN /\ fs' = f.fs
                 /\ LET m == main(f.raised, 0, f.printed)
                    IN  /\ pc' = "exited"
                        /\ exitCode' = Some(m.code)
                        /\ step' = [NoStep EXCEPT !.prompt = pc, !.input = inp, !.out = m.printed,
                                                 !.calls = <<name>>, !.wrote = f.wrote]
                 /\ fileOps' = fileOps + 1
                 /\ UNCHANGED <<running, op, message, shiftv, harness>>
            ELSE /\ fs' = f.fs
                 /\ fileOps' = fileOps + 1
                 /\ ToContinue(inp, [NoStep EXCEPT
                        !.out = <<"Encrypting file...">> \o f.printed
                                \o (IF f.ret THEN <<"successfully!">> ELSE <<>>),
                        !.calls = <<name>>,
                        !.wrote = f.wrote,
                        !.reported = IF f.ret
                                     THEN Some(FinalOutput(message, output_file, suffix))
                                     ELSE None])
                 /\ UNCHANGED exitCode

\* the continue-or-quit prompt of run()
ReadContinue ==
    /\ pc = "continue"
    /\ \E inp \in Deliveries(ContinueLines) :
        LET r == get_user_input(inp)
        IN  IF r.raised # "none" THEN Terminate(inp, r)
            ELSE IF IsQuit(r.value)
            THEN Finish(inp, <<"Goodbye!">>)
            ELSE /\ pc' = "choice"
                 /\ step' = [NoStep EXCEPT !.prompt = pc, !.input = inp, !.out = <<"menu">>]
                 /\ UNCHANGED <<running, op, message, shiftv, exitCode, fs, fileOps, harness>>

NextShell ==
    \/ ReadChoice
    \/ ReadMessage
    \/ ReadInputFile
    \/ ReadShift
    \/ ReadOutputFile
    \/ ReadContinue

SpecShell == InitShell /\ [][NextShell]_vars

(* ---------------------------------------------------------------------- *)
(* Properties of the shell, checked under SpecShell                        *)
(* ---------------------------------------------------------------------- *)
Blank(l) == \A i \in 1..Len(l) : l[i] \in Whitespace

\* the line without the whitespace around it
Trimmed(l) ==
    IF Blank(l) THEN <<>>
    ELSE LET a == CHOOSE i \in 1..Len(l) : l[i] \notin Whitespace /\ \A j \in 1..(i - 1) : l[j] \in Whitespace
             b == CHOOSE i \in 1..Len(l) : l[i] \notin Whitespace /\ \A j \in (i + 1)..Len(l) : l[j] \in Whitespace
         IN  SubSeq(l, a, b)

Has(seq, x) == \E i \in 1..Len(seq) : seq[i] = x

\* where the extension of p starts: at the last dot of the last component
\* when something other than dots precedes it there, else past the end
ExtensionStart(p) ==
    LET slashes == {i \in 1..Len(p) : p[i] = Slash}
        first == IF slashes = {} THEN 1 ELSE 1 + CHOOSE i \in slashes : \A j \in slashes : j <= i
        dots == {i \in first..Len(p) : p[i] = Dot /\ \A j \in (i + 1)..Len(p) : p[j] # Dot}
    IN  IF dots # {} /\ \E j \in first..((CHOOSE i \in dots : TRUE) - 1) : p[j] # Dot
        THEN CHOOSE i \in dots : TRUE
        ELSE Len(p) + 1

InsertBeforeExtension(p, suffix) ==
    SubSeq(p, 1, ExtensionStart(p) - 1) \o suffix \o SubSeq(p, ExtensionStart(p), Len(p))

\* C7: a successful encrypt_file / decrypt_file run from the menu writes the
\* transformed content of the input file to exactly one path, the explicit
\* output path when one is entered and otherwise the input path with
\* _encrypted / _decrypted before the extension; the content found there
\* before is replaced in full, no other file changes, and the path the
\* menu reports is the path written.
C7_FileOutput ==
    [][(pc = "output_file" /\ Has(step'.out, "successfully!")) =>
        LET explicit == Trimmed(step'.input.line)
            target == IF explicit # <<>> THEN explicit
                      ELSE InsertBeforeExtension(message,
                               IF op = <<52>> THEN SuffixEncrypted ELSE SuffixDecrypted)
            content == IF op = <<52>> THEN encrypt(fs.files[message], shiftv).value
                       ELSE decrypt(fs.files[message], shiftv).value
        IN  /\ op \in {<<52>>, <<53>>}
            /\ step'.wrote = <<target>>
            /\ DOMAIN fs'.files = (DOMAIN fs.files) \cup {target}
            /\ fs'.files[target] = content
            /\ \A q \in (DOMAIN fs.files) \ {target} : fs'.files[q] = fs.files[q]
            /\ step'.reported = Some(target)]_vars

\* "a_encrypted.t", which holds "zz" at the start, now holds the
\* encryption of "Za1" with shift 1
C7_Witness ==
    /\ step.prompt = "output_file" /\ step.input = Line(<<>>)
    /\ step.reported = Some(<<97>> \o SuffixEncrypted \o <<46, 116>>)
    /\ fs.files[<<97>> \o SuffixEncrypted \o <<46, 116>>] = <<65, 98, 49>>

\* an explicit exit selection: 8 at the menu, q at the continue prompt
ExplicitExit(st) ==
    /\ st.input.kind = "line"
    /\ \/ st.prompt = "choice" /\ Trimmed(st.input.line) = <<56>>
       \/ st.prompt = "continue" /\ Trimmed(st.input.line) \in {<<113>>, <<81>>}

Prompts == {"choice", "message", "input_file", "shift", "output_file", "continue"}

\* C8: the process stops only through an explicit exit selection or an
\* interrupt during a blocking prompt; every other outcome of a read,
\* end of input included, leaves the menu loop running.
C8_OnlyExitOrInterrupt ==
    pc = "exited" => (step.input.kind = "KeyboardInterrupt" \/ ExplicitExit(step))

\* C8 as amended: the process stops only through an explicit exit
\* selection, an interrupt during a blocking prompt, or end of input at a
\* prompt, which the outer wrapper reports as an unexpected error with
\* exit code 1; every other outcome (invalid choice, rejected shift, empty
\* input, missing file, permission denial, other I/O failure) is reported
\* as a message and the loop stays running, the menu being shown again
\* after the continue prompt.
C8_Amended ==
    [][/\ pc' = "exited" =>
            \/ step'.input.kind = "KeyboardInterrupt"
            \/ ExplicitExit(step')
            \/ /\ step'.input.kind = "EOFError"
               /\ exitCode' = Some(1)
               /\ step'.out = <<"An unexpected error occurred">>
       /\ (step'.input.kind = "line" /\ ~ExplicitExit(step')) =>
            /\ pc' \in Prompts /\ running' /\ exitCode' = None
            /\ pc = "choice" /\ Trimmed(step'.input.line) \notin {<<c>> : c \in 49..56} =>
                 (pc' = "choice" /\ step'.out = <<"Invalid choice.", "menu">>)
            /\ pc = "shift" /\ Trimmed(step'.input.line) \notin {<<49>>, <<51>>, <<50, 53>>} =>
                 (pc' = "shift" /\ step'.out # <<>>)
            /\ pc \in {"message", "input_file"} /\ Blank(step'.input.line) =>
                 (pc' = "continue" /\ step'.out # <<>>)
            /\ pc = "output_file" =>
                 /\ pc' = "continue"
                 /\ message \in fs.dirs => Has(step'.out, "IsADirectoryError")
                 /\ message \notin fs.dirs \cup DOMAIN fs.files => Has(step'.out, "not found")
                 /\ message \in (DOMAIN fs.files \cap fs.denied) \ fs.dirs =>
                      Has(step'.out, "Permission denied")
                 /\ message \in (DOMAIN fs.files \cap fs.binary) \ (fs.dirs \cup fs.denied) =>
                      Has(step'.out, "UnicodeDecodeError")
                 /\ Has(step'.out, "successfully!") \/ Len(step'.out) >= 2
            /\ pc = "continue" => (pc' = "choice" /\ step'.out = <<"menu">>)]_vars

\* end of input at the shift prompt ended the process with exit code 1
C8_Witness ==
    /\ pc = "exited" /\ exitCode = Some(1)
    /\ step.prompt = "shift" /\ step.input.kind = "EOFError"

\* C9: when the message or the input path entered is empty or only
\* whitespace, the handler reports it and returns: the shift is not
\* asked for, neither the engine nor a file helper is called, and no file
\* is read or written.
C9_EmptyInput ==
    [][(pc \in {"message", "input_file"} /\ step'.input.kind = "line" /\ Blank(step'.input.line)) =>
        /\ op \in {<<c>> : c \in 49..53}
        /\ pc' = "continue"
        /\ step'.out \in {<<"Message cannot be empty.">>, <<"File path cannot be empty.">>}
        /\ step'.calls = <<>>
        /\ step'.wrote = <<>>
        /\ fs' = fs
        /\ fileOps' = fileOps]_vars

C9_Witness ==
    /\ step.prompt = "input_file" /\ step.input = Line(<<32>>)
    /\ pc = "continue" /\ step.out = <<"File path cannot be empty.">>

\* C10: an interrupt during any prompt ends the process at once with the
\* farewell message and exit code 0; nothing is prompted, called or
\* written after it, and it never takes the exit-code-1 path of the outer
\* wrapper.
C10_Interrupt ==
    [][/\ pc \in Prompts
       /\ step'.input.kind = "KeyboardInterrupt" =>
            /\ pc' = "exited"
            /\ exitCode' = Some(0)
            /\ step'.out = <<"Goodbye!">>
            /\ step'.calls = <<>>
            /\ step'.wrote = <<>>
            /\ fs' = fs]_vars

C10_Witness ==
    /\ pc = "exited" /\ exitCode = Some(0)
    /\ step.prompt = "shift" /\ step.input.kind = "KeyboardInterrupt"
    /\ step.out = <<"Goodbye!">>

====
